---------------------------- MODULE Spec2Model ----------------------------
(***************************************************************************)
(* Model of the scm-workbench Git layer (Source/Git/wb_git_project.py) and *)
(* of the diff view window registry (Source/Common/wb_diff_view.py).       *)
(*                                                                         *)
(* Four specifications share the variables:                                *)
(*   Spec          GitProject over a repository (HEAD, index, working copy)*)
(*   SpecFileState one WbGitFileState under _addStaged/_addUnstaged/queries*)
(*   SpecLog       a commit log call for one commit and its first parent   *)
(*   SpecDiffView  WbDiffView.__init__ / closeEvent and all_diff_views     *)
(*                                                                         *)
(* A call that raises before it changes anything is a stuttering step.     *)
(***************************************************************************)
EXTENDS Integers, Sequences, FiniteSets, TLC

VARIABLES
    \* ---- the repository on disk (owned by git, read through GitPython)
    head,               \* tree of repo.head.commit: path -> blob id, 0 = absent
    idx,                \* the index file on disk:   path -> blob id, 0 = absent
    work,               \* the working copy:         path -> content id, 0 = absent
    remote_behind,      \* HEAD has commits that the remote's ref does not have
    \* ---- GitProject fields
    index,              \* self.index: None or the IndexFile read at the last refresh
    tree,               \* self.tree: the GitProjectTreeNode objects, keyed by folder chain
    all_file_state,     \* self.all_file_state: path -> WbGitFileState
    dirty_index,        \* self.__dirty_index
    stale_index,        \* self.__stale_index
    num_staged_files,   \* self.__num_staged_files
    \* ---- results of the library calls of the last __calculateStatus
    head_vs_index,      \* self.index.diff( self.repo.head.commit )
    index_vs_working,   \* self.index.diff( None )
    untracked_files,    \* self.repo.untracked_files
    \* ---- what the caller of GitProject has done
    cmd_completed,      \* a mutating command returned normally since the last saveChanges
    cmd_marked,         \* a mutating command reached its stale-index assignment since then
    pending,            \* number of mutating commands that returned since the last refresh
    \* ---- one WbGitFileState object (SpecFileState)
    fs,
    \* ---- one commit log call (SpecLog)
    log_commit,         \* the commit the iteration yields: its tree, its parents' trees
    log_pc,             \* "start", "done"
    log_args,           \* the arguments limit, since, until of the call; None before it
    log_kwds,           \* the keyword arguments passed to repo.iter_commits
    log_result,         \* "none" before the call, then "ok" or the exception raised
    all_changes,        \* GitCommitLogNode.__all_changes of the commit's node
    \* ---- WbDiffView class attributes and the windows created so far (SpecDiffView)
    uid,                \* WbDiffView.uid
    all_diff_views,     \* WbDiffView.all_diff_views: window_uid -> window
    views               \* every window created so far: [window_uid, closed]

repoVars == << head, idx, work, remote_behind >>
statusVars == << index, tree, all_file_state, num_staged_files,
                 head_vs_index, index_vs_working, untracked_files >>
flagVars == << dirty_index, stale_index >>
callVars == << cmd_completed, cmd_marked, pending >>
projectVars == << repoVars, statusVars, flagVars, callVars >>
logVars == << log_commit, log_pc, log_args, log_kwds, log_result, all_changes >>
viewVars == << uid, all_diff_views, views >>
otherVars == << fs, logVars, viewVars >>
vars == << projectVars, fs, logVars, viewVars >>

----------------------------------------------------------------------------
(* Bounds of the model *)

\* blob / content ids are 1..NumBlobs
NumBlobs == 2
\* number of WbDiffView windows created in one run
MaxViews == 6
\* number of mutating commands a caller issues between two refreshes
MaxPending == 2

----------------------------------------------------------------------------
(* Python values *)

\* Optional values: None is the empty sequence, a value x is <<x>>
None == << >>
Some(x) == << x >>
IsNone(o) == o = << >>
Get(o) == o[1]

\* a missing blob object
NoBlob == 0
Blobs == 1..NumBlobs

\* a set in some iteration order
RECURSIVE SetToSeq(_)
SetToSeq(S) ==
    IF S = {} THEN << >>
    ELSE LET x == CHOOSE y \in S : TRUE IN << x >> \o SetToSeq(S \ {x})

Range(q) == { q[i] : i \in 1..Len(q) }

\* every ordering of a finite set
Orderings(S) == { q \in [1..Cardinality(S) -> S] : Range(q) = S }

----------------------------------------------------------------------------
(* Repository relative paths are strings; a string is a sequence of        *)
(* characters so that str.split and str.join are computed, not assumed.    *)

Slash == "/"

\* str.split( '/' ): the components of s, each a string
RECURSIVE SplitFrom(_, _, _)
SplitFrom(s, i, cur) ==
    IF i > Len(s) THEN << cur >>
    ELSE IF s[i] = Slash THEN << cur >> \o SplitFrom(s, i + 1, << >>)
    ELSE SplitFrom(s, i + 1, Append(cur, s[i]))
Split(s) == SplitFrom(s, 1, << >>)

\* '/'.join( parts )
RECURSIVE Join(_)
Join(parts) ==
    IF Len(parts) = 0 THEN << >>
    ELSE IF Len(parts) = 1 THEN parts[1]
    ELSE parts[1] \o << Slash >> \o Join(Tail(parts))

\* pathlib.Path( '.' )
DotPath == << "." >>

\* the files a repository of the model can hold
PathA == << "a" >>
PathDA == << "d", "/", "a" >>
PathDEA == << "d", "/", "e", "/", "a" >>
AllPaths == { PathA, PathDA, PathDEA }

\* str.split( '/' ) of the model's paths
PathParts == [p \in AllPaths |-> Split(p)]

\* a tree, an index or a working copy: path -> id, 0 where the path is absent
Trees == [AllPaths -> 0..NumBlobs]
PathsOf(t) == { p \in AllPaths : t[p] # 0 }


----------------------------------------------------------------------------
(* git.Diff objects, as far as the program reads them *)

\* a diff entry as GitPython hands it out: the two paths, the three change
\* flags and the two blobs
Diff(a_path, b_path, renamed, new_file, deleted_file, a_blob, b_blob) ==
    [ a_path |-> a_path, b_path |-> b_path, renamed |-> renamed,
      new_file |-> new_file, deleted_file |-> deleted_file,
      a_blob |-> a_blob, b_blob |-> b_blob ]

----------------------------------------------------------------------------
(* class WbGitFileState *)

\* an abbreviation that has not been computed yet (Python None)
NoAbbrev == "None"

\* WbGitFileState.__init__
WbGitFileState(index_entry) ==
    [ index_entry |-> index_entry,
      unstaged_diff |-> None,
      staged_diff |-> None,
      untracked |-> FALSE,
      state_calculated |-> FALSE,
      staged_is_modified |-> FALSE,
      unstaged_is_modified |-> FALSE,
      staged_abbrev |-> NoAbbrev,
      unstaged_abbrev |-> NoAbbrev,
      head_blob |-> NoBlob,
      staged_blob |-> NoBlob ]

\* WbGitFileState._addStaged
AddStaged(s, diff) == [s EXCEPT !.state_calculated = FALSE, !.staged_diff = Some(diff)]

\* WbGitFileState._addUnstaged
AddUnstaged(s, diff) == [s EXCEPT !.state_calculated = FALSE, !.unstaged_diff = Some(diff)]

\* WbGitFileState._setUntracked
SetUntracked(s) == [s EXCEPT !.untracked = TRUE]

\* the staged half of __calculateState
CalculateStaged_FlagsAsNamed(s) ==
    IF IsNone(s.staged_diff) THEN [s EXCEPT !.staged_abbrev = ""]
    ELSE LET d == Get(s.staged_diff) IN
         IF d.renamed THEN [s EXCEPT !.staged_abbrev = "R"]
         ELSE IF d.deleted_file THEN [s EXCEPT !.staged_abbrev = "D"]
         ELSE IF d.new_file THEN [s EXCEPT !.staged_abbrev = "A"]
         ELSE [s EXCEPT !.staged_abbrev = "M",
                        !.staged_is_modified = TRUE,
                        !.head_blob = d.b_blob,
                        !.staged_blob = d.a_blob]

CalculateStaged(s) ==
    IF IsNone(s.staged_diff) THEN [s EXCEPT !.staged_abbrev = ""]
    ELSE LET d == Get(s.staged_diff) IN
         IF d.renamed THEN [s EXCEPT !.staged_abbrev = "R"]
         ELSE IF d.deleted_file THEN [s EXCEPT !.staged_abbrev = "A"]
         ELSE IF d.new_file THEN [s EXCEPT !.staged_abbrev = "D"]
         ELSE [s EXCEPT !.staged_abbrev = "M",
                        !.staged_is_modified = TRUE,
                        !.head_blob = d.b_blob,
                        !.staged_blob = d.a_blob]

\* the unstaged half of __calculateState
CalculateUnstaged(s) ==
    IF IsNone(s.unstaged_diff) THEN [s EXCEPT !.unstaged_abbrev = ""]
    ELSE LET d == Get(s.unstaged_diff) IN
         IF d.deleted_file THEN [s EXCEPT !.unstaged_abbrev = "D"]
         ELSE IF d.new_file THEN [s EXCEPT !.unstaged_abbrev = "A"]
         ELSE [s EXCEPT !.unstaged_abbrev = "M",
                        !.unstaged_is_modified = TRUE,
                        !.head_blob = IF s.head_blob = NoBlob THEN d.a_blob ELSE s.head_blob]

\* WbGitFileState.__calculateState: the object after the call
CalculateState(s) ==
    IF s.state_calculated THEN s
    ELSE [CalculateUnstaged(CalculateStaged(s)) EXCEPT !.state_calculated = TRUE]

\* the queries: each calls __calculateState and returns a field of the result
getStagedAbbreviatedStatus(s) == CalculateState(s).staged_abbrev
getUnstagedAbbreviatedStatus(s) == CalculateState(s).unstaged_abbrev
isStagedNew(s) == CalculateState(s).staged_abbrev = "A"
isStagedModified(s) == CalculateState(s).staged_abbrev = "M"
isStagedDeleted(s) == CalculateState(s).staged_abbrev = "D"
isUnstagedModified(s) == CalculateState(s).unstaged_abbrev = "M"
isUnstagedDeleted(s) == CalculateState(s).unstaged_abbrev = "D"
isUntracked(s) == s.untracked
canDiffHeadVsStaged(s) == CalculateState(s).staged_is_modified
canDiffStagedVsWorking(s) ==
    CalculateState(s).unstaged_is_modified /\ CalculateState(s).staged_is_modified
canDiffHeadVsWorking(s) == CalculateState(s).unstaged_is_modified

----------------------------------------------------------------------------
(* The answers of the wrapped library for a repository state *)

\* dict[ k ] = v
Put(f, k, v) == [x \in (DOMAIN f) \cup {k} |-> IF x = k THEN v ELSE f[x]]

\* an index entry object: its path and the id of its blob
IndexEntry(p, id) == [path |-> p, hexsha |-> id]

\* self.index.entries.values() of an IndexFile holding `entries`
IndexEntries(entries) == { IndexEntry(p, entries[p]) : p \in PathsOf(entries) }

\* the pairings the rename detection (-M) may report between the paths that are
\* only on the a side and the paths only on the b side: pairs of equal
\* content, no path used twice, and no pair left that could still be made
RenamePairings(a, b) ==
    LET onlyA == PathsOf(a) \ PathsOf(b)
        onlyB == PathsOf(b) \ PathsOf(a)
        cand == { pr \in onlyA \X onlyB : a[pr[1]] = b[pr[2]] }
    IN { m \in SUBSET cand :
           /\ \A x, y \in m : (x[1] = y[1] \/ x[2] = y[2]) => x = y
           /\ \A pr \in cand : \E x \in m : x[1] = pr[1] \/ x[2] = pr[2] }

\* the diff of tree a against tree b under the pairing m, oriented a -> b:
\* a path only in a is a deleted file, a path only in b is a new file
TreeDiff(a, b, m) ==
    LET onlyA == (PathsOf(a) \ PathsOf(b)) \ { x[1] : x \in m }
        onlyB == (PathsOf(b) \ PathsOf(a)) \ { x[2] : x \in m }
        both == { p \in PathsOf(a) \cap PathsOf(b) : a[p] # b[p] }
    IN    { Diff(x[1], x[2], TRUE, FALSE, FALSE, a[x[1]], b[x[2]]) : x \in m }
     \cup { Diff(p, p, FALSE, FALSE, TRUE, a[p], NoBlob) : p \in onlyA }
     \cup { Diff(p, p, FALSE, TRUE, FALSE, NoBlob, b[p]) : p \in onlyB }
     \cup { Diff(p, p, FALSE, FALSE, FALSE, a[p], b[p]) : p \in both }

\* self.index.diff( self.repo.head.commit ): every answer the library may give.
\* IndexFile.diff against a commit is the reverse diff: a is the index, b is HEAD
HeadVsIndexAnswers(entries, headTree) ==
    { TreeDiff(entries, headTree, m) : m \in RenamePairings(entries, headTree) }

\* self.index.diff( None ): the index (a) against the working copy (b); only
\* paths of the index are compared, the b side has no blob yet
IndexVsWorking(entries, workTree) ==
          { Diff(p, p, FALSE, FALSE, TRUE, entries[p], NoBlob) :
              p \in { q \in PathsOf(entries) : workTree[q] = 0 } }
     \cup { Diff(p, p, FALSE, FALSE, FALSE, entries[p], NoBlob) :
              p \in { q \in PathsOf(entries) : workTree[q] # 0 /\ workTree[q] # entries[q] } }

\* self.repo.untracked_files
UntrackedFiles(entries, workTree) == { p \in PathsOf(workTree) : entries[p] = 0 }

----------------------------------------------------------------------------
(* class GitProjectTreeNode and GitProject.__updateTree *)

ProjectName == << "w", "b" >>

\* the empty dict
EmptyDict == [x \in {} |-> 0]

\* GitProjectTreeNode.__init__
GitProjectTreeNode(name, path) ==
    [ name |-> name, path |-> path, all_folders |-> EmptyDict, all_files |-> EmptyDict ]

\* the tree as built by __init__ and at the start of updateState: the root only.
\* A node object is named by the chain of folder names that leads to it.
RootChain == << >>
NewTree == [c \in {RootChain} |-> GitProjectTreeNode(ProjectName, DotPath)]

\* the loop of __updateTree from `depth` on (depth counts from 1 here), then
\* the assignment to all_files
RECURSIVE UpdateTreeFrom(_, _, _, _, _)
UpdateTreeFrom(t, path, path_parts, node, depth) ==
    IF depth > Len(path_parts) - 1
    THEN [t EXCEPT ![node].all_files = Put(@, path_parts[Len(path_parts)], path)]
    ELSE LET node_name == path_parts[depth] IN
         IF node_name \in DOMAIN t[node].all_folders
         THEN UpdateTreeFrom(t, path, path_parts, t[node].all_folders[node_name], depth + 1)
         ELSE LET new_node == Append(node, node_name)
                  t1 == [t EXCEPT ![node].all_folders = Put(@, node_name, new_node)]
                  t2 == Put(t1, new_node,
                            GitProjectTreeNode(node_name, Join(SubSeq(path_parts, 1, depth))))
              IN UpdateTreeFrom(t2, path, path_parts, new_node, depth + 1)

\* GitProject.__updateTree
UpdateTree(t, path) == UpdateTreeFrom(t, path, PathParts[path], RootChain, 1)

\* for path in self.all_file_state: self.__updateTree( path )
RECURSIVE UpdateTreeAll(_, _)
UpdateTreeAll(t, keys) ==
    IF Len(keys) = 0 THEN t
    ELSE UpdateTreeAll(UpdateTree(t, keys[1]), Tail(keys))

----------------------------------------------------------------------------
(* GitProject.__calculateStatus *)

\* for entry in self.index.entries.values()
RECURSIVE AddEntries(_, _)
AddEntries(afs, es) ==
    IF Len(es) = 0 THEN afs
    ELSE AddEntries(Put(afs, es[1].path, WbGitFileState(Some(es[1]))), Tail(es))

\* variant: the staged diffs filed under their index-side path
RECURSIVE AddStagedDiffs_ByAPath(_, _)
AddStagedDiffs_ByAPath(afs, ds) ==
    IF Len(ds) = 0 THEN afs
    ELSE LET diff == ds[1]
             a1 == IF diff.a_path \notin DOMAIN afs
                   THEN Put(afs, diff.a_path, WbGitFileState(None)) ELSE afs
         IN AddStagedDiffs_ByAPath([a1 EXCEPT ![diff.a_path] = AddStaged(@, diff)], Tail(ds))

\* for diff in head_vs_index
RECURSIVE AddStagedDiffs(_, _)
AddStagedDiffs(afs, ds) ==
    IF Len(ds) = 0 THEN afs
    ELSE LET diff == ds[1]
             a1 == IF diff.b_path \notin DOMAIN afs
                   THEN Put(afs, diff.b_path, WbGitFileState(None)) ELSE afs
         IN AddStagedDiffs([a1 EXCEPT ![diff.b_path] = AddStaged(@, diff)], Tail(ds))

\* for diff in index_vs_working
RECURSIVE AddUnstagedDiffs(_, _)
AddUnstagedDiffs(afs, ds) ==
    IF Len(ds) = 0 THEN afs
    ELSE LET diff == ds[1]
             a1 == IF diff.a_path \notin DOMAIN afs
                   THEN Put(afs, diff.a_path, WbGitFileState(None)) ELSE afs
         IN AddUnstagedDiffs([a1 EXCEPT ![diff.a_path] = AddUnstaged(@, diff)], Tail(ds))

\* for path in untracked_files
RECURSIVE AddUntracked(_, _)
AddUntracked(afs, ps) ==
    IF Len(ps) = 0 THEN afs
    ELSE LET path == ps[1]
             a1 == IF path \notin DOMAIN afs
                   THEN Put(afs, path, WbGitFileState(None)) ELSE afs
         IN AddUntracked([a1 EXCEPT ![path] = SetUntracked(@)], Tail(ps))

\* the all_file_state that __calculateStatus builds from the library's answers
CalculateStatus(entries, hvi, ivw, untracked) ==
    AddUntracked(
        AddUnstagedDiffs(
            AddStagedDiffs(
                AddEntries(EmptyDict, SetToSeq(IndexEntries(entries))),
                SetToSeq(hvi)),
            SetToSeq(ivw)),
        SetToSeq(untracked))

----------------------------------------------------------------------------
(* class GitProject: the refresh entry points *)

\* lines 73-79 of updateState: the tree is rebuilt from the root, the status is
\* recalculated from the repository as it is now, every path is put in the tree
Refresh_KeepTree ==
    /\ index' = Some(idx)
    /\ \E hvi \in HeadVsIndexAnswers(idx, head) :
          /\ head_vs_index' = hvi
          /\ index_vs_working' = IndexVsWorking(idx, work)
          /\ untracked_files' = UntrackedFiles(idx, work)
          /\ num_staged_files' = Cardinality(hvi)
          /\ all_file_state' = CalculateStatus(idx, hvi, IndexVsWorking(idx, work),
                                               UntrackedFiles(idx, work))
    /\ tree' = UpdateTreeAll(tree, SetToSeq(DOMAIN all_file_state'))
    /\ pending' = 0

Refresh ==
    /\ index' = Some(idx)
    /\ \E hvi \in HeadVsIndexAnswers(idx, head) :
          /\ head_vs_index' = hvi
          /\ index_vs_working' = IndexVsWorking(idx, work)
          /\ untracked_files' = UntrackedFiles(idx, work)
          /\ num_staged_files' = Cardinality(hvi)
          /\ all_file_state' = CalculateStatus(idx, hvi, IndexVsWorking(idx, work),
                                               UntrackedFiles(idx, work))
    /\ tree' = UpdateTreeAll(NewTree, SetToSeq(DOMAIN all_file_state'))
    /\ pending' = 0

\* GitProject.updateState; a failed assertion leaves everything as it is
UpdateState ==
    /\ IF dirty_index
       THEN UNCHANGED << statusVars, pending >>
       ELSE Refresh
    /\ UNCHANGED << repoVars, flagVars, cmd_completed, cmd_marked, otherVars >>

\* GitProject.saveChanges; repo.index.write() rewrites the index file from
\* the index file, which leaves it as it is
SaveChanges_NoUpdate ==
    /\ cmd_completed' = FALSE
    /\ cmd_marked' = FALSE
    /\ IF ~(dirty_index \/ stale_index)
       THEN UNCHANGED << statusVars, flagVars, pending >>
       ELSE /\ dirty_index' = FALSE
            /\ stale_index' = FALSE
            /\ UNCHANGED statusVars
            /\ pending' = 0
    /\ UNCHANGED << repoVars, otherVars >>

SaveChanges ==
    /\ cmd_completed' = FALSE
    /\ cmd_marked' = FALSE
    /\ IF ~(dirty_index \/ stale_index)
       THEN UNCHANGED << statusVars, flagVars, pending >>
       ELSE /\ dirty_index' = FALSE
            /\ stale_index' = FALSE
            /\ Refresh
    /\ UNCHANGED << repoVars, otherVars >>

----------------------------------------------------------------------------
(* class GitProject: the commands *)

\* a call that raised before it changed anything
Raised == UNCHANGED vars

\* variant: the command marks the index dirty
MarkStale_Dirty ==
    /\ pending < MaxPending
    /\ pending' = pending + 1
    /\ dirty_index' = TRUE
    /\ cmd_marked' = TRUE
    /\ cmd_completed' = TRUE
    /\ UNCHANGED << stale_index, statusVars, otherVars >>

\* the last statement of a command that changed the repository: the index is
\* marked stale and the command returns
MarkStale ==
    /\ pending < MaxPending
    /\ pending' = pending + 1
    /\ stale_index' = TRUE
    /\ cmd_marked' = TRUE
    /\ cmd_completed' = TRUE
    /\ UNCHANGED << dirty_index, statusVars, otherVars >>

\* GitProject.cmdStage: git add records the working copy's content of the file
\* in the index, or its removal; a path matching no file is an error
CmdStage ==
    \E filename \in AllPaths :
        IF work[filename] = 0 /\ idx[filename] = 0
        THEN Raised
        ELSE /\ idx' = [idx EXCEPT ![filename] = work[filename]]
             /\ UNCHANGED << head, work, remote_behind >>
             /\ MarkStale

\* GitProject.cmdUnstage: git reset --mixed HEAD <file> sets the index entry of
\* the file back to HEAD's; a name that is no path anywhere is an error
CmdUnstage ==
    \E filename \in AllPaths :
        IF head[filename] = 0 /\ idx[filename] = 0 /\ work[filename] = 0
        THEN Raised
        ELSE /\ idx' = [idx EXCEPT ![filename] = head[filename]]
             /\ UNCHANGED << head, work, remote_behind >>
             /\ MarkStale

\* GitProject.cmdRevert: git checkout HEAD <file> sets the index entry and the
\* working copy of the file to HEAD's; a path not in HEAD is an error
CmdRevert ==
    \E filename \in AllPaths :
        IF head[filename] = 0
        THEN Raised
        ELSE /\ idx' = [idx EXCEPT ![filename] = head[filename]]
             /\ work' = [work EXCEPT ![filename] = head[filename]]
             /\ UNCHANGED << head, remote_behind >>
             /\ MarkStale

\* GitProject.cmdDelete: unlink of the file in the working copy; unlink of a
\* file that does not exist raises
CmdDelete_NoStale ==
    \E filename \in AllPaths :
        IF work[filename] = 0
        THEN Raised
        ELSE /\ work' = [work EXCEPT ![filename] = 0]
             /\ UNCHANGED << head, idx, remote_behind >>
             /\ pending < MaxPending
             /\ pending' = pending + 1
             /\ cmd_marked' = TRUE
             /\ cmd_completed' = TRUE
             /\ UNCHANGED << flagVars, statusVars, otherVars >>

CmdDelete ==
    \E filename \in AllPaths :
        IF work[filename] = 0
        THEN Raised
        ELSE /\ work' = [work EXCEPT ![filename] = 0]
             /\ UNCHANGED << head, idx, remote_behind >>
             /\ MarkStale

\* GitProject.cmdCommit: the index is marked stale first; then self.index, the
\* IndexFile object of the last refresh, commits the entries it holds. Before
\* the first refresh self.index is None and the call raises AttributeError.
CmdCommit ==
    /\ stale_index' = TRUE
    /\ cmd_marked' = TRUE
    /\ IF IsNone(index)
       THEN UNCHANGED << repoVars, cmd_completed, pending >>
       ELSE /\ pending < MaxPending
            /\ pending' = pending + 1
            /\ head' = Get(index)
            /\ remote_behind' = TRUE
            /\ cmd_completed' = TRUE
            /\ UNCHANGED << idx, work >>
    /\ UNCHANGED << dirty_index, statusVars, otherVars >>

----------------------------------------------------------------------------
(* Commit trees as git.Tree objects, and GitProject.__treeToDict *)

\* the id that marks a tree item of type 'commit' (a submodule link)
Gitlink == -1

\* the characters of the model's names in byte order, and the order of names
Alphabet == << ".", "/", "a", "b", "d", "e", "w" >>
CharRank(c) == CHOOSE i \in 1..Len(Alphabet) : Alphabet[i] = c
RECURSIVE NameLess(_, _)
NameLess(x, y) ==
    IF Len(y) = 0 THEN FALSE
    ELSE IF Len(x) = 0 THEN TRUE
    ELSE IF x[1] # y[1] THEN CharRank(x[1]) < CharRank(y[1])
    ELSE NameLess(Tail(x), Tail(y))

\* a set of names in tree order
RECURSIVE SortNames(_)
SortNames(S) ==
    IF S = {} THEN << >>
    ELSE LET m == CHOOSE x \in S : \A y \in S \ {x} : NameLess(x, y)
         IN << m >> \o SortNames(S \ {m})

\* A commit's tree is held flat, path -> id; the Tree object of folder `dir`
\* (a chain of names) has as items the paths one name below dir, and as
\* sub-trees the folders one name below dir that hold some item.
ItemNames(t, dir) ==
    { PathParts[p][Len(dir) + 1] :
        p \in { q \in DOMAIN t : /\ t[q] # 0
                                 /\ Len(PathParts[q]) = Len(dir) + 1
                                 /\ SubSeq(PathParts[q], 1, Len(dir)) = dir } }
SubTreeNames(t, dir) ==
    { PathParts[p][Len(dir) + 1] :
        p \in { q \in DOMAIN t : /\ t[q] # 0
                                 /\ Len(PathParts[q]) > Len(dir) + 1
                                 /\ SubSeq(PathParts[q], 1, Len(dir)) = dir } }
ItemPath(dir, name) == Join(Append(dir, name))
ItemType(t, path) == IF t[path] = Gitlink THEN "commit" ELSE "blob"

\* a dict in insertion order: a sequence of << key, value >> without repeated keys
DictKeys(d) == { d[i][1] : i \in 1..Len(d) }
DictValue(d, k) == d[CHOOSE i \in 1..Len(d) : d[i][1] = k][2]
DictPut(d, k, v) ==
    IF k \in DictKeys(d)
    THEN [i \in 1..Len(d) |-> IF d[i][1] = k THEN << k, v >> ELSE d[i]]
    ELSE Append(d, << k, v >>)

\* for blob in tree: if blob.type == 'blob': all_entries[ blob.path ] = blob.hexsha
RECURSIVE TreeBlobs(_, _, _, _)
TreeBlobs(t, dir, names, all_entries) ==
    IF Len(names) = 0 THEN all_entries
    ELSE LET path == ItemPath(dir, names[1]) IN
         TreeBlobs(t, dir, Tail(names),
                   IF ItemType(t, path) = "blob"
                   THEN DictPut(all_entries, path, t[path])
                   ELSE all_entries)

\* GitProject.__treeToDict on the Tree object of folder dir; the second loop,
\* over tree.trees, is TreeChildren
RECURSIVE TreeToDict(_, _, _)
RECURSIVE TreeChildren(_, _, _, _)
TreeToDict_NoSubTrees(t, dir, all_entries) ==
    TreeBlobs(t, dir, SortNames(ItemNames(t, dir)), all_entries)

TreeToDict(t, dir, all_entries) ==
    TreeChildren(t, dir, SortNames(SubTreeNames(t, dir)),
                 TreeBlobs(t, dir, SortNames(ItemNames(t, dir)), all_entries))

TreeChildren(t, dir, children, all_entries) ==
    IF Len(children) = 0 THEN all_entries
    ELSE TreeChildren(t, dir, Tail(children),
                      TreeToDict(t, Append(dir, children[1]), all_entries))

----------------------------------------------------------------------------
(* GitCommitLogNode and GitProject.__addCommitChangeInformation *)

\* the empty string
EmptyStr == << >>

\* the members of set S in the iteration order ord
InOrder(S, ord) == SelectSeq(ord, LAMBDA x : x \in S)

\* GitCommitLogNode._addChanges: what is appended to __all_changes
AddChanges(all_added, all_deleted, all_renamed, all_modified, ord) ==
    LET added == InOrder(all_added, ord)
        deleted == InOrder(all_deleted, ord)
        modified == InOrder(all_modified, ord)
    IN    [i \in 1..Len(added) |-> << "A", added[i], EmptyStr >>]
       \o [i \in 1..Len(deleted) |-> << "D", deleted[i], EmptyStr >>]
       \o [i \in 1..Len(all_renamed) |-> << "R", all_renamed[i][1], all_renamed[i][2] >>]
       \o [i \in 1..Len(modified) |-> << "M", modified[i], EmptyStr >>]

\* GitCommitLogNode.commitPreviousTree
CommitPreviousTree(commit) ==
    IF Len(commit.parents) = 0 THEN None ELSE Some(commit.parents[1])

\* for name, id_ in all_old.items(): all_old_id_to_name[ id_ ] = name
RECURSIVE OldIdToName(_, _)
OldIdToName(all_old, acc) ==
    IF Len(all_old) = 0 THEN acc
    ELSE OldIdToName(Tail(all_old), Put(acc, all_old[1][2], all_old[1][1]))

\* for name in list(all_added): the rename detection of lines 288-294.
\* set.remove of a member that is not in the set raises KeyError.
RECURSIVE RenameLoop(_, _, _, _, _, _)
RenameLoop(names, all_new, id_to_name, all_added, all_deleted, all_renamed) ==
    IF Len(names) = 0
    THEN [ raised |-> FALSE, all_added |-> all_added,
           all_deleted |-> all_deleted, all_renamed |-> all_renamed ]
    ELSE LET name == names[1]
             id_ == DictValue(all_new, name)
         IN IF id_ \in DOMAIN id_to_name
            THEN IF id_to_name[id_] \notin all_deleted
                 THEN [ raised |-> TRUE, all_added |-> all_added \ {name},
                        all_deleted |-> all_deleted, all_renamed |-> all_renamed ]
                 ELSE RenameLoop(Tail(names), all_new, id_to_name,
                                 all_added \ {name},
                                 all_deleted \ {id_to_name[id_]},
                                 Append(all_renamed, << name, id_to_name[id_] >>))
            ELSE RenameLoop(Tail(names), all_new, id_to_name,
                            all_added, all_deleted, all_renamed)

\* the body of the loop of __addCommitChangeInformation for one commit, with
\* the sets iterated in the order ord: the result and the node's change list
AddCommitChangeInformation(commit, ord) ==
    LET new_tree == commit.tree
        old_tree == CommitPreviousTree(commit)
        all_new == TreeToDict(new_tree, << >>, << >>)
        new_set == DictKeys(all_new)
    IN IF IsNone(old_tree)
       THEN [ result |-> "ok", changes |-> AddChanges(new_set, {}, << >>, {}, ord) ]
       ELSE LET all_old == TreeToDict(Get(old_tree), << >>, << >>)
                old_set == DictKeys(all_old)
                all_added == new_set \ old_set
                all_deleted == old_set \ new_set
                r == IF Cardinality(all_added) > 0
                     THEN RenameLoop(InOrder(all_added, ord), all_new,
                                     OldIdToName(all_old, EmptyDict),
                                     all_added, all_deleted, << >>)
                     ELSE [ raised |-> FALSE, all_added |-> all_added,
                            all_deleted |-> all_deleted, all_renamed |-> << >> ]
                all_modified == { key \in new_set :
                                    /\ key \in old_set
                                    /\ DictValue(all_new, key) # DictValue(all_old, key) }
            IN IF r.raised
               THEN [ result |-> "KeyError", changes |-> << >> ]
               ELSE [ result |-> "ok",
                      changes |-> AddChanges(r.all_added, r.all_deleted,
                                             r.all_renamed, all_modified, ord) ]

----------------------------------------------------------------------------
(* class GitProject: the queries, pull and push *)

\* GitProject.getReportStagedFiles: isStagedNew() is asked of every file state
GetReportStagedFiles ==
    /\ all_file_state' = [p \in DOMAIN all_file_state |-> CalculateState(all_file_state[p])]
    /\ UNCHANGED << repoVars, index, tree, num_staged_files, head_vs_index,
                    index_vs_working, untracked_files, flagVars, callVars, otherVars >>

\* GitProject.getReportUntrackedFiles: isUntracked() first, the calculating
\* queries only for the file states that are not untracked
GetReportUntrackedFiles ==
    /\ all_file_state' = [p \in DOMAIN all_file_state |->
                            IF isUntracked(all_file_state[p])
                            THEN all_file_state[p]
                            ELSE CalculateState(all_file_state[p])]
    /\ UNCHANGED << repoVars, index, tree, num_staged_files, head_vs_index,
                    index_vs_working, untracked_files, flagVars, callVars, otherVars >>

\* GitProject.cmdPull, one remote. No commit reaches the remote from elsewhere
\* in the model, so the pull finds nothing to merge.
CmdPull == UNCHANGED vars

\* GitProject.cmdPush, one remote: the remote's ref moves up to HEAD
CmdPush ==
    /\ remote_behind' = FALSE
    /\ UNCHANGED << head, idx, work, statusVars, flagVars, callVars, otherVars >>

----------------------------------------------------------------------------
(* class GitProject: the commit log *)

\* variant: until is passed whenever it is given
Kwds_UntilByItself(limit, since, until) ==
    LET k1 == IF ~IsNone(limit) THEN Put(EmptyDict, "max_count", limit) ELSE EmptyDict
        k2 == IF ~IsNone(since) THEN Put(k1, "since", since) ELSE k1
        k3 == IF ~IsNone(until) THEN Put(k2, "until", until) ELSE k2
    IN k3

\* the keyword arguments built by lines 228-234 and 245-251
Kwds(limit, since, until) ==
    LET k1 == IF ~IsNone(limit) THEN Put(EmptyDict, "max_count", limit) ELSE EmptyDict
        k2 == IF ~IsNone(since) THEN Put(k1, "since", since) ELSE k1
        k3 == IF ~IsNone(since) THEN Put(k2, "until", until) ELSE k2
    IN k3

\* the values an optional argument takes
OptArgs == { None, Some(1) }

\* GitProject.cmdCommitLogForRepository: the filters go into kwds, a node is
\* made for the commit and __addCommitChangeInformation fills its change list
\* or raises; the sets are iterated in some order ord
CmdCommitLogForRepository ==
    /\ log_pc = "start"
    /\ log_pc' = "done"
    /\ \E limit \in OptArgs, since \in OptArgs, until \in OptArgs :
          /\ log_args' = [limit |-> limit, since |-> since, until |-> until]
          /\ log_kwds' = Kwds(limit, since, until)
    /\ \E ord \in Orderings(AllPaths) :
          LET r == AddCommitChangeInformation(log_commit, ord) IN
          /\ all_changes' = r.changes
          /\ log_result' = r.result
    /\ UNCHANGED << log_commit, projectVars, fs, viewVars >>

\* GitProject.cmdCommitLogForFile: the same with the file name as a path filter
\* of the iteration
CmdCommitLogForFile ==
    /\ log_pc = "start"
    /\ log_pc' = "done"
    /\ \E limit \in OptArgs, since \in OptArgs, until \in OptArgs :
          /\ log_args' = [limit |-> limit, since |-> since, until |-> until]
          /\ log_kwds' = Kwds(limit, since, until)
    /\ \E ord \in Orderings(AllPaths) :
          LET r == AddCommitChangeInformation(log_commit, ord) IN
          /\ all_changes' = r.changes
          /\ log_result' = r.result
    /\ UNCHANGED << log_commit, projectVars, fs, viewVars >>

----------------------------------------------------------------------------
(* class WbGitFileState: the calls on one object *)

\* the diffs handed to _addStaged and _addUnstaged: every setting of the three
\* flags the code reads; a new file has no a blob, a deleted file no b blob,
\* a renamed file has another path on the b side
DiffInputs ==
    { Diff(PathA, IF r THEN PathDA ELSE PathA, r, n, d,
           IF n THEN NoBlob ELSE 1, IF d THEN NoBlob ELSE 2) :
        r \in BOOLEAN, n \in BOOLEAN, d \in BOOLEAN }

fsOtherVars == << projectVars, logVars, viewVars >>

FsAddStaged ==
    /\ \E diff \in DiffInputs : fs' = AddStaged(fs, diff)
    /\ UNCHANGED fsOtherVars

FsAddUnstaged ==
    /\ \E diff \in DiffInputs : fs' = AddUnstaged(fs, diff)
    /\ UNCHANGED fsOtherVars

FsSetUntracked ==
    /\ fs' = SetUntracked(fs)
    /\ UNCHANGED fsOtherVars

\* any of the queries that call __calculateState
FsQuery ==
    /\ fs' = CalculateState(fs)
    /\ UNCHANGED fsOtherVars

----------------------------------------------------------------------------
(* class WbDiffView: the registry of windows *)

\* dict without key k
Without(f, k) == [x \in (DOMAIN f) \ {k} |-> f[x]]

\* WbDiffView.__init__: the class counter is incremented, the new window takes
\* its value as window_uid and is entered in all_diff_views
DiffViewInit ==
    /\ Len(views) < MaxViews
    /\ uid' = uid + 1
    /\ views' = Append(views, [window_uid |-> uid + 1, closed |-> FALSE])
    /\ all_diff_views' = Put(all_diff_views, uid + 1, Len(views) + 1)
    /\ UNCHANGED << projectVars, fs, logVars >>

\* WbDiffView.closeEvent of an open window
CloseEvent_Clear ==
    /\ \E w \in 1..Len(views) :
          /\ ~views[w].closed
          /\ views[w].window_uid \in DOMAIN all_diff_views
          /\ all_diff_views' = EmptyDict
          /\ views' = [views EXCEPT ![w].closed = TRUE]
    /\ UNCHANGED << uid, projectVars, fs, logVars >>

CloseEvent ==
    /\ \E w \in 1..Len(views) :
          /\ ~views[w].closed
          /\ views[w].window_uid \in DOMAIN all_diff_views
          /\ all_diff_views' = Without(all_diff_views, views[w].window_uid)
          /\ views' = [views EXCEPT ![w].closed = TRUE]
    /\ UNCHANGED << uid, projectVars, fs, logVars >>

----------------------------------------------------------------------------
(* Initial states and specifications *)

\* the state right after GitProject.__init__ on a repository
Constructed(h, i, w) ==
    /\ head = h
    /\ idx = i
    /\ work = w
    /\ remote_behind = FALSE
    /\ index = None
    /\ tree = NewTree
    /\ all_file_state = EmptyDict
    /\ dirty_index = FALSE
    /\ stale_index = FALSE
    /\ num_staged_files = 0
    /\ head_vs_index = {}
    /\ index_vs_working = {}
    /\ untracked_files = {}
    /\ cmd_completed = FALSE
    /\ cmd_marked = FALSE
    /\ pending = 0

EmptyTree == [p \in AllPaths |-> 0]

\* no commit log call started
LogStart(commit) ==
    /\ log_commit = commit
    /\ log_pc = "start"
    /\ log_args = None
    /\ log_kwds = EmptyDict
    /\ log_result = "none"
    /\ all_changes = << >>

\* a root commit with an empty tree
EmptyCommit == [tree |-> EmptyTree, parents |-> << >>]

\* a WbGitFileState as __calculateStatus constructs it
FsConstructed == fs \in { WbGitFileState(None), WbGitFileState(Some(IndexEntry(PathA, 1))) }

\* the class attributes of WbDiffView as the class body sets them
DiffViewClass == uid = 0 /\ all_diff_views = EmptyDict /\ views = << >>

\* the repository a project is opened on: nothing staged; a is tracked and
\* edited, d/a is tracked and unchanged, d/e/a is untracked and has the
\* content of a in HEAD
TreeOf(a, da, dea) ==
    [p \in AllPaths |-> IF p = PathA THEN a ELSE IF p = PathDA THEN da ELSE dea]
InitHead == TreeOf(1, NumBlobs, 0)
InitWork == TreeOf(NumBlobs, NumBlobs, 1)

Init ==
    /\ Constructed(InitHead, InitHead, InitWork)
    /\ LogStart(EmptyCommit)
    /\ fs = WbGitFileState(None)
    /\ DiffViewClass

Next ==
    \/ UpdateState
    \/ SaveChanges
    \/ CmdStage
    \/ CmdUnstage
    \/ CmdRevert
    \/ CmdDelete
    \/ CmdCommit
    \/ CmdPull
    \/ CmdPush
    \/ GetReportStagedFiles
    \/ GetReportUntrackedFiles

Spec == Init /\ [][Next]_vars

\* one WbGitFileState object
InitFileState ==
    /\ Constructed(EmptyTree, EmptyTree, EmptyTree)
    /\ LogStart(EmptyCommit)
    /\ FsConstructed
    /\ DiffViewClass

NextFileState ==
    \/ FsAddStaged
    \/ FsAddUnstaged
    \/ FsSetUntracked
    \/ FsQuery

SpecFileState == InitFileState /\ [][NextFileState]_vars

\* one commit log call; the commit is any commit over the model's paths with
\* no parent or one, a submodule link possible at d/e/a
LogTrees ==
    { t \in [AllPaths -> {Gitlink} \cup (0..NumBlobs)] :
        \A p \in AllPaths : t[p] = Gitlink => p = PathDEA }
LogCommits ==
    { [tree |-> t, parents |-> ps] :
        t \in LogTrees, ps \in { << >> } \cup { << o >> : o \in LogTrees } }

InitLog ==
    /\ Constructed(EmptyTree, EmptyTree, EmptyTree)
    /\ \E c \in LogCommits : LogStart(c)
    /\ fs = WbGitFileState(None)
    /\ DiffViewClass

NextLog ==
    \/ CmdCommitLogForRepository
    \/ CmdCommitLogForFile

SpecLog == InitLog /\ [][NextLog]_vars

\* the diff view windows
InitDiffView ==
    /\ Constructed(EmptyTree, EmptyTree, EmptyTree)
    /\ LogStart(EmptyCommit)
    /\ fs = WbGitFileState(None)
    /\ DiffViewClass

NextDiffView ==
    \/ DiffViewInit
    \/ CloseEvent

SpecDiffView == InitDiffView /\ [][NextDiffView]_vars

----------------------------------------------------------------------------
(* Properties *)

\* the folder chain is linked from the root, folder by folder
LinkedFromRoot(chain) ==
    \A k \in 1..Len(chain) :
        LET parent == SubSeq(chain, 1, k - 1) IN
        /\ parent \in DOMAIN tree
        /\ chain[k] \in DOMAIN tree[parent].all_folders
        /\ tree[parent].all_folders[chain[k]] = SubSeq(chain, 1, k)

\* path p = d1/.../dk/f is filed as all_files[f] = p in the node reached from
\* the root through d1 ... dk, whose relative path is d1/.../dk
FiledInTree(p) ==
    \E chain \in DOMAIN tree :
        /\ LinkedFromRoot(chain)
        /\ \A k \in 1..Len(chain) : Slash \notin Range(chain[k])
        /\ tree[chain].path = (IF chain = RootChain THEN DotPath ELSE Join(chain))
        /\ \E f \in DOMAIN tree[chain].all_files :
              /\ Slash \notin Range(f)
              /\ Join(Append(chain, f)) = p
              /\ tree[chain].all_files[f] = p

\* C1: the project tree is exactly the projection of all_file_state: every key
\* is filed under its folders, and no node holds a file entry whose path is
\* not a key of the current all_file_state. The tree and all_file_state change
\* together, in the refreshes only, so this holds at every state.
C1_TreeIsProjection ==
    /\ \A p \in DOMAIN all_file_state : FiledInTree(p)
    /\ \A chain \in DOMAIN tree : \A f \in DOMAIN tree[chain].all_files :
          tree[chain].all_files[f] \in DOMAIN all_file_state

\* C1 witness: after a commit that removed a from HEAD (so a refresh before it
\* had filed a) a later refresh holds no entry for a, and files d/a and d/e/a
\* two and three names deep
C1_Witness ==
    /\ head[PathA] = 0
    /\ pending = 0
    /\ PathA \notin DOMAIN all_file_state
    /\ PathDA \in DOMAIN all_file_state
    /\ PathDEA \in DOMAIN all_file_state

StatusIsCurrent ==
    /\ index = Some(idx)
    /\ head_vs_index \in HeadVsIndexAnswers(idx, head)
    /\ index_vs_working = IndexVsWorking(idx, work)
    /\ untracked_files = UntrackedFiles(idx, work)
    /\ num_staged_files = Cardinality(head_vs_index)
    /\ LET fresh == CalculateStatus(idx, head_vs_index, index_vs_working,
                                    untracked_files)
       IN  /\ DOMAIN all_file_state = DOMAIN fresh
           /\ \A p \in DOMAIN fresh :
                 CalculateState(all_file_state[p]) = CalculateState(fresh[p])
    /\ tree = UpdateTreeAll(NewTree, SetToSeq(DOMAIN all_file_state))

\* getFileState( p ) answers for the repository as it is now
FileStateReflectsRepository ==
    \A p \in AllPaths :
        /\ idx[p] # 0 =>
              /\ p \in DOMAIN all_file_state
              /\ all_file_state[p].index_entry = Some(IndexEntry(p, idx[p]))
              /\ ~isUntracked(all_file_state[p])
              /\ isUnstagedDeleted(all_file_state[p]) <=> work[p] = 0
              /\ isUnstagedModified(all_file_state[p]) <=>
                    (work[p] # 0 /\ work[p] # idx[p])
        /\ (idx[p] # 0 /\ head[p] # 0 /\ idx[p] # head[p]) =>
              isStagedModified(all_file_state[p])
        /\ (idx[p] # 0 /\ head[p] = 0
               /\ ~\E d \in head_vs_index : d.renamed /\ d.a_path = p) =>
              isStagedNew(all_file_state[p])
        /\ (idx[p] = 0 /\ head[p] # 0
               /\ ~\E d \in head_vs_index : d.renamed /\ d.b_path = p) =>
              /\ p \in DOMAIN all_file_state
              /\ isStagedDeleted(all_file_state[p])
        /\ (idx[p] = 0 /\ work[p] # 0) =>
              /\ p \in DOMAIN all_file_state
              /\ isUntracked(all_file_state[p])
        /\ (idx[p] = 0 /\ work[p] = 0 /\ head[p] = 0) =>
              p \notin DOMAIN all_file_state

\* C5: a saveChanges() called while the index is stale or dirty clears both
\* flags and recomputes the state and the tree: from its return until the next
\* command marks the index again, the status and the tree held by the project
\* are those of the repository as the commands before it left it, and
\* getFileState answers for their effects.
C5_SaveChangesRecomputes ==
    /\ [][ ((stale_index \/ dirty_index) /\ SaveChanges) =>
              (~stale_index' /\ ~dirty_index' /\ ~IsNone(index') /\ pending' = 0) ]_vars
    /\ [](  (~stale_index /\ ~dirty_index /\ ~IsNone(index)) =>
              (StatusIsCurrent /\ FileStateReflectsRepository) )

\* C5 witness: the state after a saveChanges() that followed a commit and a
\* later command (only saveChanges clears the stale mark the commit left): the
\* status is current, with staged and unstaged changes present
C5_Witness ==
    /\ head # InitHead
    /\ ~stale_index
    /\ pending = 0
    /\ StatusIsCurrent
    /\ head_vs_index # {}
    /\ index_vs_working # {}

\* C9 as stated: the assertion of saveChanges() (stale or dirty) holds exactly
\* when one of the five commands has completed since the last saveChanges().
C9_AssertionIffCompleted ==
    (stale_index \/ dirty_index) <=> cmd_completed

\* C9 amended: the assertion of saveChanges() holds exactly when one of the
\* five commands has reached its assignment of the stale flag since the last
\* saveChanges() (cmdCommit on entry, the other four as their last statement);
\* only these commands and saveChanges() change a flag, and saveChanges()
\* leaves both flags clear, so that a second saveChanges() fails its assertion.
C9_AssertionIffMarked ==
    /\ []((stale_index \/ dirty_index) <=> cmd_marked)
    /\ [][ (stale_index' # stale_index \/ dirty_index' # dirty_index) =>
              (CmdStage \/ CmdUnstage \/ CmdRevert \/ CmdDelete \/ CmdCommit
                 \/ SaveChanges) ]_vars
    /\ [][ (cmd_completed' /\ ~cmd_completed) => stale_index' ]_vars
    /\ [][ SaveChanges => ~(stale_index' \/ dirty_index') ]_vars

\* C9 witness: a cmdCommit() has marked the index stale and then raised, so
\* that the assertion holds although no command has completed
C9_Witness ==
    /\ stale_index
    /\ cmd_marked
    /\ ~cmd_completed

\* a freshly constructed file state holding only the latest staged diff and
\* the latest unstaged diff of s
FreshState(s) ==
    [ WbGitFileState(s.index_entry) EXCEPT !.staged_diff = s.staged_diff,
                                           !.unstaged_diff = s.unstaged_diff,
                                           !.untracked = s.untracked ]

\* C3: after any sequence of _addStaged / _addUnstaged calls and queries, every
\* query of the file state returns what the same query returns on a freshly
\* constructed file state holding only the latest staged and unstaged diff.
C3_QueriesMatchFresh ==
    LET fresh == FreshState(fs) IN
    /\ getStagedAbbreviatedStatus(fs) = getStagedAbbreviatedStatus(fresh)
    /\ getUnstagedAbbreviatedStatus(fs) = getUnstagedAbbreviatedStatus(fresh)
    /\ isStagedNew(fs) = isStagedNew(fresh)
    /\ isStagedModified(fs) = isStagedModified(fresh)
    /\ isStagedDeleted(fs) = isStagedDeleted(fresh)
    /\ isUnstagedModified(fs) = isUnstagedModified(fresh)
    /\ isUnstagedDeleted(fs) = isUnstagedDeleted(fresh)
    /\ canDiffHeadVsStaged(fs) = canDiffHeadVsStaged(fresh)
    /\ canDiffStagedVsWorking(fs) = canDiffStagedVsWorking(fresh)
    /\ canDiffHeadVsWorking(fs) = canDiffHeadVsWorking(fresh)

\* a diff is oriented from its a side to its b side: deleted_file says the
\* file is on the a side only, new_file that it is on the b side only
OnlyOnASide(d) == d.deleted_file /\ ~d.new_file
OnlyOnBSide(d) == d.new_file /\ ~d.deleted_file
NoFlagSet(d) == ~d.renamed /\ ~d.new_file /\ ~d.deleted_file

\* the parts of C4 that do not speak of 'M'
ClassifiedByOrientation ==
    /\ getStagedAbbreviatedStatus(fs) \in {"", "A", "M", "D", "R"}
    /\ getUnstagedAbbreviatedStatus(fs) \in {"", "A", "M", "D"}
    /\ IsNone(fs.staged_diff) <=> getStagedAbbreviatedStatus(fs) = ""
    /\ IsNone(fs.unstaged_diff) <=> getUnstagedAbbreviatedStatus(fs) = ""
    /\ ~IsNone(fs.staged_diff) =>
          LET d == Get(fs.staged_diff) IN
          /\ d.renamed => getStagedAbbreviatedStatus(fs) = "R"
          /\ (~d.renamed /\ OnlyOnASide(d)) => isStagedNew(fs)
          /\ (~d.renamed /\ OnlyOnBSide(d)) => isStagedDeleted(fs)
    /\ ~IsNone(fs.unstaged_diff) =>
          LET d == Get(fs.unstaged_diff) IN
          OnlyOnASide(d) => isUnstagedDeleted(fs)

\* C4 as stated: exactly one staged code of '', A, M, D, R and one unstaged
\* code of '', A, M, D; a file in the index (a) and not in HEAD (b) is staged
\* new, one in HEAD and not in the index is staged deleted, one in the index
\* and not in the working copy is unstaged deleted, a staged rename gets R, and
\* either code is M exactly when its diff exists with none of the renamed, new
\* and deleted flags set.
C4_ClassificationAsStated ==
    /\ ClassifiedByOrientation
    /\ isStagedModified(fs) <=>
          (~IsNone(fs.staged_diff) /\ NoFlagSet(Get(fs.staged_diff)))
    /\ isUnstagedModified(fs) <=>
          (~IsNone(fs.unstaged_diff) /\ NoFlagSet(Get(fs.unstaged_diff)))

\* C4 amended: as stated, but the unstaged code is M exactly when the unstaged
\* diff exists with neither the new nor the deleted flag set: the renamed flag
\* of an unstaged diff is not looked at.
C4_Classification ==
    /\ ClassifiedByOrientation
    /\ isStagedModified(fs) <=>
          (~IsNone(fs.staged_diff) /\ NoFlagSet(Get(fs.staged_diff)))
    /\ isUnstagedModified(fs) <=>
          /\ ~IsNone(fs.unstaged_diff)
          /\ ~Get(fs.unstaged_diff).new_file
          /\ ~Get(fs.unstaged_diff).deleted_file

\* C4 witness: a calculated file state whose staged diff has the file on the
\* index side only (staged new) and whose unstaged diff has only the renamed
\* flag set (unstaged code M)
C4_Witness ==
    /\ fs.state_calculated
    /\ ~IsNone(fs.staged_diff)
    /\ ~Get(fs.staged_diff).renamed
    /\ OnlyOnASide(Get(fs.staged_diff))
    /\ fs.staged_abbrev = "A"
    /\ ~IsNone(fs.unstaged_diff)
    /\ Get(fs.unstaged_diff).renamed
    /\ ~Get(fs.unstaged_diff).new_file
    /\ ~Get(fs.unstaged_diff).deleted_file
    /\ fs.unstaged_abbrev = "M"

\* the blobs of a commit tree by path, and the triples of the change list
BlobPaths(t) == { p \in AllPaths : t[p] \in Blobs }
TriplesEqual(c) == { i \in 1..Len(all_changes) : all_changes[i] = c }
TriplesOf(p) == { i \in 1..Len(all_changes) : all_changes[i][2] = p }
TriplesFrom(p) == { i \in 1..Len(all_changes) : all_changes[i][3] = p }

\* C6: for a commit with no parent the change list holds exactly one triple
\* ('A', path, '') for every blob path of the commit's tree, sub-trees
\* included, and nothing else.
C6_NoParentAllAdded ==
    (log_pc = "done" /\ Len(log_commit.parents) = 0) =>
        /\ log_result = "ok"
        /\ \A p \in BlobPaths(log_commit.tree) :
              Cardinality(TriplesEqual(<< "A", p, EmptyStr >>)) = 1
        /\ \A i \in 1..Len(all_changes) :
              /\ all_changes[i][1] = "A"
              /\ all_changes[i][2] \in BlobPaths(log_commit.tree)
              /\ all_changes[i][3] = EmptyStr

\* C6 witness: the change list of a parentless commit with a blob at the top,
\* one in a sub-tree and a submodule link in a sub-tree of that
C6_Witness ==
    /\ log_pc = "done"
    /\ Len(log_commit.parents) = 0
    /\ log_commit.tree[PathA] \in Blobs
    /\ log_commit.tree[PathDA] \in Blobs
    /\ log_commit.tree[PathDEA] = Gitlink
    /\ Len(all_changes) = 2

\* C7: for every commit tree and first-parent tree the computation of the
\* change list completes without raising.
C7_NeverRaises ==
    log_pc = "done" => log_result = "ok"

\* C8: for a commit with a parent the change list is computed and reports each
\* changed path exactly once: a path only in the new tree as A, or as R with an
\* old path only in the old tree of the same content id; a path only in the old
\* tree as D or as the old path of exactly one R; a path in both trees as M iff
\* its content id differs, and not at all otherwise.
C8_EachChangeOnce ==
    (log_pc = "done" /\ Len(log_commit.parents) > 0) =>
        LET new == log_commit.tree
            old == log_commit.parents[1]
            onlyNew == BlobPaths(new) \ BlobPaths(old)
            onlyOld == BlobPaths(old) \ BlobPaths(new)
            both == BlobPaths(new) \cap BlobPaths(old)
        IN  /\ log_result = "ok"
            /\ \A p \in onlyNew :
                  /\ Cardinality(TriplesOf(p)) = 1
                  /\ \A i \in TriplesOf(p) :
                        \/ all_changes[i] = << "A", p, EmptyStr >>
                        \/ /\ all_changes[i][1] = "R"
                           /\ all_changes[i][3] \in onlyOld
                           /\ old[all_changes[i][3]] = new[p]
            /\ \A p \in onlyOld :
                  /\ Cardinality((TriplesOf(p) \cup TriplesFrom(p))) = 1
                  /\ \A i \in (TriplesOf(p) \cup TriplesFrom(p)) :
                        \/ all_changes[i] = << "D", p, EmptyStr >>
                        \/ all_changes[i][1] = "R" /\ all_changes[i][3] = p
            /\ \A p \in both :
                  IF new[p] # old[p]
                  THEN /\ Cardinality(TriplesOf(p)) = 1
                       /\ TriplesOf(p) =
                             TriplesEqual(<< "M", p, EmptyStr >>)
                       /\ TriplesFrom(p) = {}
                  ELSE (TriplesOf(p) \cup TriplesFrom(p)) = {}
            /\ \A i \in 1..Len(all_changes) :
                  all_changes[i][2] \in BlobPaths(new) \cup BlobPaths(old)

\* the windows created and not yet closed
OpenViews == { w \in 1..Len(views) : ~views[w].closed }

\* C10: the keys of all_diff_views are exactly the uids of the open windows,
\* each uid leads to its own window, uids are strictly increasing in the order
\* of creation (so never reused, and no two windows share one), and a close
\* event removes the entry of the closed window and no other.
C10_RegistryOfOpenViews ==
    /\ [](DOMAIN all_diff_views = { views[w].window_uid : w \in OpenViews })
    /\ [](\A w \in OpenViews : all_diff_views[views[w].window_uid] = w)
    /\ [](\A v \in 1..Len(views), w \in 1..Len(views) :
             v < w => views[v].window_uid < views[w].window_uid)
    /\ [](\A w \in 1..Len(views) : views[w].window_uid \in 1..uid)
    /\ [][ \A w \in 1..Len(views) :
             (views'[w].closed /\ ~views[w].closed) =>
                /\ DOMAIN all_diff_views' =
                      (DOMAIN all_diff_views) \ { views[w].window_uid }
                /\ \A k \in DOMAIN all_diff_views' :
                      all_diff_views'[k] = all_diff_views[k] ]_vars
    /\ [][ Len(views') > Len(views) =>
             \A w \in 1..Len(views) :
                views'[Len(views')].window_uid > views[w].window_uid ]_vars

\* C10 witness: a window created after two others were closed is open together
\* with an earlier one
C10_Witness ==
    /\ Cardinality(OpenViews) >= 2
    /\ Len(views) - Cardinality(OpenViews) >= 2
    /\ \E v \in 1..Len(views), w \in OpenViews : views[v].closed /\ v < w
    /\ \E v \in 1..Len(views), w \in OpenViews : views[v].closed /\ w < v

\* C11: the dirty-index flag is false in every reachable state of a
\* GitProject, so the assertion of updateState() (not dirty) never fails and
\* saveChanges() never takes the branch that writes the index.
C11_NeverDirty ==
    ~dirty_index

\* C11 witness: commands have marked the index since a refresh that followed a
\* commit; an updateState() or saveChanges() called now finds the flag false
C11_Witness ==
    /\ ~dirty_index
    /\ stale_index
    /\ pending > 0
    /\ head # InitHead
    /\ Get(index) # idx

\* filter key k is passed to the commit iteration exactly when argument arg
\* of the call is not None, and then with the argument's value
PassedWhenGiven(k, arg) ==
    /\ k \in DOMAIN log_kwds <=> ~IsNone(arg)
    /\ k \in DOMAIN log_kwds => log_kwds[k] = arg

\* C12: cmdCommitLogForRepository and cmdCommitLogForFile pass each of the
\* filters limit, since and until to the commit iteration exactly when that
\* argument is not None, independently of the other two: an until given
\* without a since is passed, and a since without an until passes no until.
C12_FiltersIndependent ==
    log_pc = "done" =>
        /\ PassedWhenGiven("max_count", log_args.limit)
        /\ PassedWhenGiven("since", log_args.since)
        /\ PassedWhenGiven("until", log_args.until)
        /\ DOMAIN log_kwds \subseteq {"max_count", "since", "until"}

=============================================================================
